---- MODULE Spec2Model ----
(***************************************************************************)
(* Model of the MCP proxy service (src/mcp-proxy-service/app): the tool    *)
(* catalog cache of MCPHTTPClient, the Redis session store, the tool       *)
(* selector, the two response formatters and the process_query handler.    *)
(*                                                                         *)
(* Python values are tagged records (field k names the Python type), so    *)
(* that values of different types can be compared.  An optional value is   *)
(* a sequence of length 0 (None) or 1.  A Python str is a TLA+ string.     *)
(***************************************************************************)
EXTENDS Integers, Sequences, FiniteSets, TLC

VARIABLES
    now,        \* the wall clock, in minutes
    client,     \* the MCPHTTPClient instance (main.py global mcp_client)
    lastGet,    \* history: what the last get_tools call saw and did
    redis,      \* the Redis keyspace: session id -> stored value with expiry
    seqno,      \* history: per session, number of append_conversation calls
    base,       \* history: per session, seqno when the key was last removed
    pc,         \* position of the request being processed by process_query
    req,        \* the QueryRequest being processed
    loc,        \* local variables of process_query
    resp,       \* the QueryResponse returned (optional)
    hist,       \* history: what the request did (remote calls, failures)
    nreq,       \* number of requests received
    nuuid,      \* number of uuid4() session ids generated
    writers,    \* per concurrent caller of the store: its append in progress
    shist,      \* history: what the callers of the store did, and when
    sel,        \* a select_tool call on its own: its position and locals
    fetchers,   \* per concurrent caller of get_tools: its call in progress
    chist,      \* history: what the get_tools calls fetched and stored
    fmt         \* the fallback formatter on its own: its calls and their results

vars == <<now, client, lastGet, redis, seqno, base, pc, req, loc, resp, hist, nreq, nuuid,
          writers, shist, sel, fetchers, chist, fmt>>
cacheVars == <<client, lastGet>>
storeVars == <<redis, seqno, base>>
reqVars == <<pc, req, loc, resp, hist, nreq, nuuid>>
callerVars == <<writers, shist>>
moreVars == <<fetchers, chist, fmt>>

(***************************************************************************)
(* Bounds of the model.                                                    *)
(***************************************************************************)
MaxTime == 6
MaxAppends == 56
MaxRequests == 1

(***************************************************************************)
(* Python values.                                                          *)
(***************************************************************************)
None == << >>
Some(x) == <<x>>
IsNone(o) == Len(o) = 0
The(o) == o[1]

PyNull == [k |-> "null"]
PyInt(n) == [k |-> "int", i |-> n]
PyStr(s) == [k |-> "str", s |-> s]
PyBool(b) == [k |-> "bool", b |-> b]
PyList(xs) == [k |-> "list", items |-> xs]
\* a dict keeps insertion order: a sequence of <<key, value>> entries, keys unique
PyDict(es) == [k |-> "dict", d |-> es]
Entry(key, val) == [key |-> key, val |-> val]

HasKey(v, key) == \E i \in 1..Len(v.d) : v.d[i].key = key
\* dict.get(key, default)
Get(v, key, default) ==
    IF HasKey(v, key)
    THEN v.d[CHOOSE i \in 1..Len(v.d) : v.d[i].key = key].val
    ELSE default
\* bool(v)
Truthy(v) ==
    CASE v.k = "null" -> FALSE
      [] v.k = "int" -> v.i # 0
      [] v.k = "str" -> v.s # ""
      [] v.k = "bool" -> v.b
      [] v.k = "list" -> Len(v.items) > 0
      [] v.k = "dict" -> Len(v.d) > 0
\* whether len(v) is defined
Sized(v) == v.k \in {"str", "list", "dict"}

(***************************************************************************)
(* MCPHTTPClient: the tool catalog cache (mcp_client.py).                  *)
(***************************************************************************)
CacheTTL == 5

\* the state of a client right after __init__
NewClient == [session |-> FALSE, tools |-> << >>, tool_cache |-> None, cache_time |-> None]

\* the tool catalogs the remote server may return from list_tools
Catalogs == { << >>,
              <<"list_projects", "list_applications", "list_business_units">>,
              <<"list_projects", "get_project">> }
\* outcomes of one remote list_tools call
FetchOutcomes == {[ok |-> FALSE, tools |-> << >>]} \cup {[ok |-> TRUE, tools |-> c] : c \in Catalogs}

\* `if self._tool_cache and self._cache_time: if now - self._cache_time < self._cache_ttl`
CacheFresh(cl, t) ==
    /\ ~IsNone(cl.tool_cache) /\ Len(The(cl.tool_cache)) > 0
    /\ ~IsNone(cl.cache_time)
    /\ t - The(cl.cache_time) < CacheTTL

\* the result of a call: the client afterwards, whether the call raised, the
\* value returned, and the outcomes of the remote list_tools calls it issued
CallResult(cl, raised, ret, fetched) == [cl |-> cl, raised |-> raised, ret |-> ret, fetched |-> fetched]

\* mutant: the snapshot is dropped before the fetch, so a failed fetch loses it
FetchTools_DropsSnapshot(cl, t, out) ==
    IF ~out.ok
    THEN CallResult([cl EXCEPT !.tool_cache = None, !.cache_time = None], TRUE, << >>, <<out>>)
    ELSE CallResult([cl EXCEPT !.tools = out.tools,
                               !.tool_cache = Some(out.tools),
                               !.cache_time = Some(t)],
                    FALSE, out.tools, <<out>>)

\* mutant: the fetched tools are added to the list already held
FetchTools_ExtendsSnapshot(cl, t, out) ==
    IF ~out.ok
    THEN CallResult(cl, TRUE, << >>, <<out>>)
    ELSE CallResult([cl EXCEPT !.tools = @ \o out.tools,
                               !.tool_cache = Some(cl.tools \o out.tools),
                               !.cache_time = Some(t)],
                    FALSE, cl.tools \o out.tools, <<out>>)

\* lines 49-61 of get_tools: the remote fetch and the replacement of the snapshot
FetchTools(cl, t, out) ==
    IF ~out.ok
    THEN CallResult(cl, TRUE, << >>, <<out>>)
    ELSE CallResult([cl EXCEPT !.tools = out.tools,
                               !.tool_cache = Some(out.tools),
                               !.cache_time = Some(t)],
                    FALSE, out.tools, <<out>>)

\* connect(): opens the session, then fetches the tools through get_tools
\* (the session is set, so that call goes straight to the fetch or the cache)
connect(cl, t, out) ==
    LET c1 == [cl EXCEPT !.session = TRUE]
    IN  IF CacheFresh(c1, t)
        THEN CallResult(c1, FALSE, The(c1.tool_cache), << >>)
        ELSE FetchTools(c1, t, out)

\* get_tools(): outs are the outcomes of the remote calls it may issue, in order
get_tools(cl, t, outs) ==
    IF CacheFresh(cl, t)
    THEN CallResult(cl, FALSE, The(cl.tool_cache), << >>)
    ELSE IF ~cl.session
    THEN LET c == connect(cl, t, outs[1])
         IN  IF c.raised
             THEN c
             ELSE LET f == FetchTools(c.cl, t, outs[2])
                  IN  CallResult(f.cl, f.raised, f.ret, c.fetched \o f.fetched)
    ELSE FetchTools(cl, t, outs[1])

NoGet == [called |-> FALSE, at |-> 0, pre |-> NewClient, res |-> CallResult(NewClient, FALSE, << >>, << >>)]
GetRecord(cl, t, r) == [called |-> TRUE, at |-> t, pre |-> cl, res |-> r]

(***************************************************************************)
(* RedisSessionStorage: the session store (redis_client.py).  A key holds  *)
(* the serialised context and the time Redis expires it (SETEX).           *)
(***************************************************************************)
\* session_ttl: 86400 seconds, in minutes
SessionTTL == 1440
MaxConversations == 50

\* json.dumps(context, default=str): the JSON value of a Python value (object,
\* array, string, number, true, false, null).  No caller of the store passes a
\* value outside str, int, bool, None, list and dict, so default=str never runs.
RECURSIVE json_dumps(_)
json_dumps(v) ==
    CASE v.k = "null" -> [j |-> "null"]
      [] v.k = "int" -> [j |-> "number", n |-> v.i]
      [] v.k = "str" -> [j |-> "string", chars |-> v.s]
      [] v.k = "bool" -> [j |-> IF v.b THEN "true" ELSE "false"]
      [] v.k = "list" -> [j |-> "array",
                          elems |-> [i \in 1..Len(v.items) |-> json_dumps(v.items[i])]]
      [] v.k = "dict" -> [j |-> "object",
                          members |-> [i \in 1..Len(v.d) |->
                              [name |-> v.d[i].key, value |-> json_dumps(v.d[i].val)]]]

\* json.loads(data): the Python value of a JSON value
RECURSIVE json_loads(_)
json_loads(data) ==
    CASE data.j = "null" -> PyNull
      [] data.j = "number" -> PyInt(data.n)
      [] data.j = "string" -> PyStr(data.chars)
      [] data.j = "true" -> PyBool(TRUE)
      [] data.j = "false" -> PyBool(FALSE)
      [] data.j = "array" -> PyList([i \in 1..Len(data.elems) |-> json_loads(data.elems[i])])
      [] data.j = "object" -> PyDict([i \in 1..Len(data.members) |->
                                  Entry(data.members[i].name,
                                        json_loads(data.members[i].value))])

\* mutant: a key is returned whether or not its expiry has passed
RedisGet_IgnoresExpiry(rd, session_id, t) ==
    IF IsNone(rd[session_id]) THEN None ELSE Some(The(rd[session_id]).data)

\* the value Redis GET returns at time t: nothing once the key has expired
RedisGet(rd, session_id, t) ==
    IF IsNone(rd[session_id]) \/ t >= The(rd[session_id]).expire_at
    THEN None
    ELSE Some(The(rd[session_id]).data)

get_session_context(rd, session_id, t) ==
    LET data == RedisGet(rd, session_id, t)
    IN  IF IsNone(data) THEN None ELSE Some(json_loads(The(data)))

\* mutant: an existing key keeps its expiry (SET with KEEPTTL instead of SETEX)
save_session_context_KeepsExpiry(rd, session_id, context, t) ==
    [rd EXCEPT ![session_id] =
        Some([data |-> json_dumps(context),
              expire_at |-> IF IsNone(RedisGet(rd, session_id, t))
                            THEN t + SessionTTL ELSE The(rd[session_id]).expire_at])]

\* mutant: an existing key keeps its value (SET with NX)
save_session_context_SetIfAbsent(rd, session_id, context, t) ==
    IF IsNone(RedisGet(rd, session_id, t))
    THEN [rd EXCEPT ![session_id] =
             Some([data |-> json_dumps(context), expire_at |-> t + SessionTTL])]
    ELSE [rd EXCEPT ![session_id] =
             Some([data |-> The(rd[session_id]).data, expire_at |-> t + SessionTTL])]

save_session_context(rd, session_id, context, t) ==
    [rd EXCEPT ![session_id] = Some([data |-> json_dumps(context), expire_at |-> t + SessionTTL])]

\* mutant: every key is removed (FLUSHDB instead of DEL key)
delete_session_FlushesAll(rd, session_id) == [s \in DOMAIN rd |-> None]

delete_session(rd, session_id) == [rd EXCEPT ![session_id] = None]

\* datetime.now(timezone.utc).isoformat() at minute t
isoformat(t) == PyStr(ToString(t))

\* context[key] = val: an existing key keeps its place, a new key comes last
Put(v, key, val) ==
    IF HasKey(v, key)
    THEN PyDict([i \in 1..Len(v.d) |-> IF v.d[i].key = key THEN Entry(key, val) ELSE v.d[i]])
    ELSE PyDict(Append(v.d, Entry(key, val)))

FreshContext(session_id, t) ==
    PyDict(<<Entry("session_id", PyStr(session_id)),
             Entry("created_at", isoformat(t)),
             Entry("conversations", PyList(<< >>))>>)
\* mutant: the turn holds the query in place of the response
Turn_QueryAsResponse(t, query, response, metadata) ==
    PyDict(<<Entry("timestamp", isoformat(t)),
             Entry("query", PyStr(query)),
             Entry("response", PyStr(query)),
             Entry("metadata", metadata)>>)

\* lines 47-52
Turn(t, query, response, metadata) ==
    PyDict(<<Entry("timestamp", isoformat(t)),
             Entry("query", PyStr(query)),
             Entry("response", PyStr(response)),
             Entry("metadata", metadata)>>)

\* context["conversations"] of a stored context, and the texts of a turn
Conversations(context) == Get(context, "conversations", PyList(<< >>)).items
TurnQuery(turn) == Get(turn, "query", PyNull).s
TurnResponse(turn) == Get(turn, "response", PyNull).s

\* mutant: keeps the first 50 turns (conversations[:50])
KeepLast_KeepsFirst(conversations) ==
    IF Len(conversations) > MaxConversations
    THEN SubSeq(conversations, 1, MaxConversations)
    ELSE conversations

\* `if len(conversations) > 50: conversations = conversations[-50:]`
KeepLast(conversations) ==
    IF Len(conversations) > MaxConversations
    THEN SubSeq(conversations, Len(conversations) - MaxConversations + 1, Len(conversations))
    ELSE conversations

\* line 41 of append_conversation up to its await: the GET
append_read(rd, session_id, t) == get_session_context(rd, session_id, t)

\* mutant: the write step reads the key again instead of using what line 41 read
append_write_ReadsAgain(rd, got, session_id, query, response, metadata, t) ==
    LET again == get_session_context(rd, session_id, t)
        context == IF IsNone(again) THEN FreshContext(session_id, t) ELSE The(again)
        appended == Append(Conversations(context), Turn(t, query, response, metadata))
        updated == Put(Put(context, "conversations", PyList(KeepLast(appended))),
                       "updated_at", isoformat(t))
    IN  [rd |-> save_session_context(rd, session_id, updated, t), raised |-> FALSE]

\* lines 41-59 once the GET has returned got: the fresh context when got is
\* falsy, the turn appended, the truncation, updated_at and the SETEX.
\* context["conversations"] raises KeyError when the stored context has no such key
append_write(rd, got, session_id, query, response, metadata, t) ==
    LET context == IF IsNone(got) \/ ~Truthy(The(got))
                   THEN FreshContext(session_id, t) ELSE The(got)
        appended == Append(Conversations(context), Turn(t, query, response, metadata))
        updated == Put(Put(context, "conversations", PyList(KeepLast(appended))),
                       "updated_at", isoformat(t))
    IN  IF ~HasKey(context, "conversations")
        THEN [rd |-> rd, raised |-> TRUE]
        ELSE [rd |-> save_session_context(rd, session_id, updated, t), raised |-> FALSE]

\* append_conversation run without interruption.  out is what Redis does: "ok",
\* or the GET or the SETEX raises and the call raises with it
append_conversation(rd, session_id, query, response, metadata, t, out) ==
    IF out = "ok"
    THEN append_write(rd, append_read(rd, session_id, t), session_id,
                      query, response, metadata, t)
    ELSE [rd |-> rd, raised |-> TRUE]

(***************************************************************************)
(* Texts (Python str values are TLA+ strings) and the conversions of       *)
(* Python values to text.                                                  *)
(***************************************************************************)
Ok(text) == [ok |-> TRUE, text |-> text]
\* an exception of the given type; text is str(e)
Raise(exc) == [ok |-> FALSE, text |-> exc]

\* `w in s` on two str values
Contains(s, w) == \E i \in 1..(Len(s) - Len(w) + 1) : SubSeq(s, i, i + Len(w) - 1) = w

Uppers == "ABCDEFGHIJKLMNOPQRSTUVWXYZ"
Lowers == "abcdefghijklmnopqrstuvwxyz"
LowerChar(c) ==
    IF \E i \in 1..Len(Uppers) : SubSeq(Uppers, i, i) = c
    THEN LET i == CHOOSE i \in 1..Len(Uppers) : SubSeq(Uppers, i, i) = c
         IN  SubSeq(Lowers, i, i)
    ELSE c
\* s.lower()
RECURSIVE Lower(_)
Lower(s) ==
    IF Len(s) = 0 THEN ""
    ELSE LowerChar(SubSeq(s, 1, 1)) \o Lower(SubSeq(s, 2, Len(s)))

IsSpace(c) == c \in {" ", "\n", "\t"}
RECURSIVE LStrip(_)
LStrip(s) ==
    IF Len(s) > 0 /\ IsSpace(SubSeq(s, 1, 1)) THEN LStrip(SubSeq(s, 2, Len(s))) ELSE s
RECURSIVE RStrip(_)
RStrip(s) ==
    IF Len(s) > 0 /\ IsSpace(SubSeq(s, Len(s), Len(s)))
    THEN RStrip(SubSeq(s, 1, Len(s) - 1)) ELSE s
\* s.strip()
Strip(s) == RStrip(LStrip(s))

RECURSIVE Spaces(_)
Spaces(n) == IF n = 0 THEN "" ELSE " " \o Spaces(n - 1)

\* sep.join(parts)
RECURSIVE Join(_, _)
Join(parts, sep) ==
    IF Len(parts) = 0 THEN ""
    ELSE IF Len(parts) = 1 THEN parts[1]
    ELSE parts[1] \o sep \o Join(Tail(parts), sep)

\* json.dumps(v, indent=2), at nesting indentation ind
RECURSIVE JsonDumps(_, _)
JsonDumps(v, ind) ==
    CASE v.k = "null" -> "null"
      [] v.k = "int" -> ToString(v.i)
      [] v.k = "str" -> "\"" \o v.s \o "\""
      [] v.k = "bool" -> (IF v.b THEN "true" ELSE "false")
      [] v.k = "list" ->
            IF Len(v.items) = 0 THEN "[]"
            ELSE "[\n"
                 \o Join([i \in 1..Len(v.items) |->
                             Spaces(ind + 2) \o JsonDumps(v.items[i], ind + 2)], ",\n")
                 \o "\n" \o Spaces(ind) \o "]"
      [] v.k = "dict" ->
            IF Len(v.d) = 0 THEN "{}"
            ELSE "{\n"
                 \o Join([i \in 1..Len(v.d) |->
                             Spaces(ind + 2) \o "\"" \o v.d[i].key \o "\": "
                             \o JsonDumps(v.d[i].val, ind + 2)], ",\n")
                 \o "\n" \o Spaces(ind) \o "}"

\* repr(v), used by str() of a list or dict
RECURSIVE PyRepr(_)
PyRepr(v) ==
    CASE v.k = "null" -> "None"
      [] v.k = "int" -> ToString(v.i)
      [] v.k = "str" -> "'" \o v.s \o "'"
      [] v.k = "bool" -> (IF v.b THEN "True" ELSE "False")
      [] v.k = "list" ->
            "[" \o Join([i \in 1..Len(v.items) |-> PyRepr(v.items[i])], ", ") \o "]"
      [] v.k = "dict" ->
            "{" \o Join([i \in 1..Len(v.d) |->
                           "'" \o v.d[i].key \o "': " \o PyRepr(v.d[i].val)], ", ") \o "}"

\* f"{v}": str(v)
PyFormat(v) == IF v.k = "str" THEN v.s ELSE PyRepr(v)

Min(a, b) == IF a < b THEN a ELSE b

(***************************************************************************)
(* ResponseFormatter: the rule-based fallback (response_formatter.py).     *)
(* Every formatter starts with result.get(...) or `key in result`, which   *)
(* raises when result is not a dict.                                       *)
(***************************************************************************)
Unknown == PyStr("Unknown")
EmptyDict == PyDict(<< >>)
EmptyList == PyList(<< >>)
EmptyStr == PyStr("")

\* a creation/update result: `if result.get("success")`, then fields of result[key]
FormatCreation(result, key, done, failed, withId, withUrl) ==
    IF result.k # "dict" THEN Raise("AttributeError")
    ELSE IF Truthy(Get(result, "success", PyNull))
    THEN LET obj == Get(result, key, EmptyDict)
         IN  IF obj.k # "dict" THEN Raise("AttributeError")
             ELSE LET name == Get(obj, "name", Unknown)
                      id == Get(obj, "id", Unknown)
                      url == Get(obj, "url", EmptyStr)
                  IN  Ok(done \o PyFormat(name) \o "'"
                         \o (IF withId THEN " (ID: " \o PyFormat(id) \o ")" ELSE "")
                         \o (IF withUrl /\ Truthy(url)
                             THEN ". You can view it at: " \o PyFormat(url) ELSE ""))
    ELSE Ok(failed \o PyFormat(Get(result, "error", PyStr("Unknown error"))))

\* mutant: a line for every item (no [:10])
ListLines_All(items, withStatus) ==
    Join([i \in 1..Len(items) |->
        LET name == Get(items[i], "name", Unknown)
            id == Get(items[i], "id", Unknown)
        IN  ToString(i) \o ". " \o PyFormat(name) \o " (ID: " \o PyFormat(id) \o ")\n"], "")

\* the numbered lines of a list formatter: the first 10 items
ListLines(items, withStatus) ==
    Join([i \in 1..Min(Len(items), 10) |->
        LET name == Get(items[i], "name", Unknown)
            id == Get(items[i], "id", Unknown)
            status == Get(items[i], "status", EmptyStr)
        IN  ToString(i) \o ". " \o PyFormat(name) \o " (ID: " \o PyFormat(id) \o ")"
            \o (IF withStatus /\ Truthy(status) THEN " - " \o PyFormat(status) ELSE "")
            \o "\n"], "")

\* a list result: count, first 10 items, "... and N more"
FormatList(found, noun, nouns, withStatus) ==
    IF ~Truthy(found) THEN Ok("No " \o nouns \o " found.")
    ELSE IF found.k = "str" THEN Raise("AttributeError")
    ELSE IF found.k # "list" THEN Raise("TypeError")
    ELSE IF \E i \in 1..Min(Len(found.items), 10) : found.items[i].k # "dict"
    THEN Raise("AttributeError")
    ELSE Ok(Strip("Found " \o ToString(Len(found.items)) \o " " \o noun \o "(s):\n"
                  \o ListLines(found.items, withStatus)
                  \o (IF Len(found.items) > 10
                      THEN "\n... and " \o ToString(Len(found.items) - 10)
                           \o " more " \o nouns \o "."
                      ELSE "")))

format_project_creation(result) ==
    FormatCreation(result, "project", "Successfully created project '",
                   "Failed to create project: ", TRUE, TRUE)

format_project_list(result) ==
    IF result.k # "dict" THEN Raise("AttributeError")
    ELSE FormatList(Get(result, "results", Get(result, "projects", EmptyList)),
                    "project", "projects", TRUE)

format_project_update(result) ==
    FormatCreation(result, "project", "Successfully updated project '",
                   "Failed to update project: ", FALSE, FALSE)

format_application_creation(result) ==
    FormatCreation(result, "application", "Successfully created application '",
                   "Failed to create application: ", TRUE, FALSE)

format_application_list(result) ==
    IF result.k # "dict" THEN Raise("AttributeError")
    ELSE FormatList(Get(result, "applications", EmptyList), "application", "applications", FALSE)

format_profile_creation(result) ==
    FormatCreation(result, "profile", "Successfully created profile '",
                   "Failed to create profile: ", TRUE, FALSE)

format_profile_list(result) ==
    IF result.k # "dict" THEN Raise("AttributeError")
    ELSE FormatList(Get(result, "profiles", EmptyList), "profile", "profiles", FALSE)

\* get_application / get_profile: result[key], then its name and id
FormatDetails(result, key, label, missing) ==
    IF result.k # "dict" THEN Raise("AttributeError")
    ELSE LET obj == Get(result, key, EmptyDict)
         IN  IF ~Truthy(obj) THEN Ok(missing)
             ELSE IF obj.k # "dict" THEN Raise("AttributeError")
             ELSE Ok(label \o PyFormat(Get(obj, "name", Unknown))
                     \o " (ID: " \o PyFormat(Get(obj, "id", Unknown)) \o ")")

format_application_details(result) ==
    FormatDetails(result, "application", "Application: ", "Application not found.")

format_profile_details(result) ==
    FormatDetails(result, "profile", "Profile: ", "Profile not found.")

\* `key in result`, for a dict, a list or a str; on other types it is a TypeError
In(key, result) ==
    CASE result.k = "dict" -> HasKey(result, key)
      [] result.k = "list" -> \E i \in 1..Len(result.items) : result.items[i] = PyStr(key)
      [] result.k = "str" -> Contains(result.s, key)

\* `a or b` on two values
PyOr(a, b) == IF Truthy(a) THEN a ELSE b

format_project_details(result) ==
    IF result.k \notin {"dict", "list", "str"} THEN Raise("TypeError")
    ELSE IF result.k # "dict" THEN
        \* on a list or str, a branch that selects a project then calls .get on it
        IF (In("id", result) /\ In("name", result)) \/ In("project", result)
        THEN Raise("AttributeError")
        ELSE Ok("Project not found.")
    ELSE IF ~(In("id", result) /\ In("name", result)) /\ ~In("project", result)
    THEN Ok("Project not found.")
    ELSE LET project == IF In("id", result) /\ In("name", result)
                        THEN result ELSE Get(result, "project", EmptyDict)
         IN  IF ~Truthy(project) THEN Ok("Project not found.")
             ELSE IF project.k # "dict" THEN Raise("AttributeError")
             ELSE IF ~Truthy(Get(project, "id", PyNull)) THEN Ok("Project not found.")
             ELSE LET url == Get(project, "url", EmptyStr)
                      description == Get(project, "description", PyNull)
                      created == PyOr(Get(project, "created", PyNull),
                                      Get(project, "created_date", PyNull))
                      updated == PyOr(Get(project, "updated", PyNull),
                                      Get(project, "modified_date", PyNull))
                      profile == Get(project, "profile", PyNull)
                  IN  Ok("Project: " \o PyFormat(Get(project, "name", Unknown))
                         \o " (ID: " \o PyFormat(Get(project, "id", Unknown)) \o ")"
                         \o (IF Truthy(url) THEN "\nURL: " \o PyFormat(url) ELSE "")
                         \o (IF Truthy(description)
                             THEN "\nDescription: " \o PyFormat(description) ELSE "")
                         \o (IF Truthy(created) THEN "\nCreated: " \o PyFormat(created) ELSE "")
                         \o (IF Truthy(updated) THEN "\nUpdated: " \o PyFormat(updated) ELSE "")
                         \o (IF Truthy(profile)
                             THEN "\nProfile: "
                                  \o (IF profile.k = "dict"
                                      THEN PyFormat(Get(profile, "name", PyNull))
                                      ELSE PyFormat(profile))
                             ELSE ""))

\* key.title() of the four keys of the generic formatter
Title(key) ==
    CASE key = "project" -> "Project"
      [] key = "application" -> "Application"
      [] key = "profile" -> "Profile"
      [] key = "result" -> "Result"

GenericKeys == <<"project", "application", "profile", "result">>

format_generic(result) ==
    IF result.k \notin {"dict", "list", "str"} THEN Raise("TypeError")
    ELSE IF result.k # "dict"
    \* result["success"] on a list or str is a TypeError, result.items() an AttributeError
    THEN (IF In("success", result) THEN Raise("TypeError") ELSE Raise("AttributeError"))
    ELSE IF HasKey(result, "success")
    THEN IF Truthy(Get(result, "success", PyNull))
         THEN LET message == Get(result, "message", PyStr("Operation completed successfully"))
                  extra == Join([i \in 1..Len(GenericKeys) |->
                      LET data == Get(result, GenericKeys[i], PyNull)
                      IN  IF ~Truthy(data) THEN ""
                          ELSE IF data.k = "dict"
                          THEN "\n\n" \o Title(GenericKeys[i]) \o ": " \o JsonDumps(data, 0)
                          ELSE "\n\n" \o Title(GenericKeys[i]) \o ": " \o PyFormat(data)], "")
              IN  \* a message that is a str (the only kind among ToolResults)
                  CASE message.k = "str" -> Ok(message.s \o extra)
         ELSE Ok("Operation failed: " \o PyFormat(Get(result, "error", PyStr("Unknown error"))))
    ELSE IF Len(result.d) = 0 THEN Ok(JsonDumps(result, 0))
    ELSE Ok(Join([i \in 1..Len(result.d) |->
                IF result.d[i].val.k \in {"dict", "list"}
                THEN result.d[i].key \o ":\n" \o JsonDumps(result.d[i].val, 0)
                ELSE result.d[i].key \o ": " \o PyFormat(result.d[i].val)], "\n"))

\* format_tool_result: the dispatch table, else the generic formatter
\* mutant: a formatter that answers differently once it has been called
format_tool_result_Remembers(tool_name, result) ==
    IF fmt.calls = 0 THEN format_generic(result) ELSE Ok("As before.")

\* lines 20-35
format_tool_result(tool_name, result) ==
    CASE tool_name = "create_project" -> format_project_creation(result)
      [] tool_name = "list_projects" -> format_project_list(result)
      [] tool_name = "get_project" -> format_project_details(result)
      [] tool_name = "update_project" -> format_project_update(result)
      [] tool_name = "create_application" -> format_application_creation(result)
      [] tool_name = "list_applications" -> format_application_list(result)
      [] tool_name = "get_application" -> format_application_details(result)
      [] tool_name = "create_profile" -> format_profile_creation(result)
      [] tool_name = "list_profiles" -> format_profile_list(result)
      [] tool_name = "get_profile" -> format_profile_details(result)
      [] OTHER -> format_generic(result)

(***************************************************************************)
(* MCPHTTPClient.call_tool (mcp_client.py).  The remote call either fails  *)
(* or returns content: text that is the JSON of a value, text that is not  *)
(* JSON, or a content list without any text part.                          *)
(***************************************************************************)
RemoteError(e) == [kind |-> "error", value |-> PyStr(e)]
JsonContent(v) == [kind |-> "json", value |-> v]
TextContent(t) == [kind |-> "text", value |-> PyStr(t)]
NoTextContent == [kind |-> "empty", value |-> PyNull]

Returned(v) == [ok |-> TRUE, value |-> v, text |-> ""]
Raised(e) == [ok |-> FALSE, value |-> PyNull, text |-> e]

call_tool(out) ==
    CASE out.kind = "error" -> Raised(out.value.s)
      \* json.loads(content) succeeds: the value, of whatever JSON type
      [] out.kind = "json" -> Returned(out.value)
      \* json.loads(content) fails
      [] out.kind = "text" -> Returned(PyDict(<<Entry("raw", out.value)>>))
      \* text_parts is empty: content = str([]) = "[]", which json.loads reads as a list
      [] out.kind = "empty" -> Returned(EmptyList)

(***************************************************************************)
(* ClaudeToolSelector.select_tool (claude_adapter.py).  A completion is    *)
(* the outcome of messages.create: an API failure, or the raw text with    *)
(* what json.loads makes of the text extracted from it (None: it raises    *)
(* JSONDecodeError).                                                       *)
(***************************************************************************)
Completion(raw, parsed) == [api_ok |-> TRUE, raw |-> raw, parsed |-> parsed]
ApiFailure == [api_ok |-> FALSE, raw |-> "", parsed |-> None]

Selected(tool_name, arguments) ==
    [ok |-> TRUE, tool_name |-> tool_name, arguments |-> arguments, text |-> ""]
ValueError(message) ==
    [ok |-> FALSE, tool_name |-> "", arguments |-> PyNull, text |-> message]

\* mutant: the message without the completion's text
RawSuffix_NoText(c) == "\n\nRaw Claude response:\n"

\* `response.content[0].text.strip()` of lines 144 and 153
RawSuffix(c) == "\n\nRaw Claude response:\n" \o Strip(c.raw)

\* mutant: without the `if not tool_name` check, a null tool name is returned
select_tool_NoNullCheck(query, available_tools, c) ==
    IF ~c.api_ok
    THEN ValueError("Claude tool selection failed: APIError")
    ELSE IF IsNone(c.parsed)
    THEN ValueError("Failed to parse Claude response as JSON: JSONDecodeError" \o RawSuffix(c))
    ELSE LET result == The(c.parsed)
         IN  IF result.k # "dict"
             THEN ValueError("Claude tool selection failed: AttributeError" \o RawSuffix(c))
             ELSE LET tool_name == Get(result, "tool_name", PyNull)
                  IN  Selected(IF tool_name.k = "str" THEN tool_name.s ELSE "",
                               Get(result, "arguments", EmptyDict))

\* lines 83-158: every exception inside the try leaves as a ValueError
select_tool(query, available_tools, c) ==
    IF ~c.api_ok
    THEN ValueError("Claude tool selection failed: APIError")
    ELSE IF IsNone(c.parsed)
    THEN ValueError("Failed to parse Claude response as JSON: JSONDecodeError" \o RawSuffix(c))
    ELSE LET result == The(c.parsed)
         IN  IF result.k # "dict"
             THEN ValueError("Claude tool selection failed: AttributeError" \o RawSuffix(c))
             ELSE LET tool_name == Get(result, "tool_name", PyNull)
                      arguments == Get(result, "arguments", EmptyDict)
                      error == Get(result, "error", PyStr("No tool selected"))
                  IN  IF ~Truthy(tool_name)
                      THEN ValueError("Claude tool selection failed: Tool selection failed: "
                                      \o PyFormat(error) \o RawSuffix(c))
                      \* a tool name that is a str (the only kind among Completions)
                      ELSE CASE tool_name.k = "str" -> Selected(tool_name.s, arguments)

(***************************************************************************)
(* select_tool, lines 94-131: the text json.loads is given.  The fence is  *)
(* removed, then the first "{" and the "}" that brings the brace count     *)
(* back to 0 delimit the object; the count looks at every character of the *)
(* text, those inside string literals included.                            *)
(***************************************************************************)
\* s.find(w), 1-based; 0 when w is not in s
Find(s, w) ==
    IF Contains(s, w)
    THEN CHOOSE i \in 1..(Len(s) - Len(w) + 1) :
            /\ SubSeq(s, i, i + Len(w) - 1) = w
            /\ \A j \in 1..(i - 1) : SubSeq(s, j, j + Len(w) - 1) # w
    ELSE 0
\* s.split(w)[0] and what follows the first w in s
Before(s, w) == IF Contains(s, w) THEN SubSeq(s, 1, Find(s, w) - 1) ELSE s
After(s, w) == SubSeq(s, Find(s, w) + Len(w), Len(s))

\* the fence marker of Markdown, three backquotes: a string of this module cannot
\* hold a backquote, so "~" stands for it (no other text here has a "~")
Fence == "~~~"
FenceJson == Fence \o "json"

\* lines 101-104
StripFence(response_text) ==
    IF Contains(response_text, FenceJson)
    THEN Strip(Before(After(response_text, FenceJson), Fence))
    ELSE IF Contains(response_text, Fence)
    THEN Strip(Before(After(response_text, Fence), Fence))
    ELSE response_text

\* lines 112-121: brace_count after the loop has looked at position i
BraceCount(response_text, start_idx, i) ==
    Cardinality({j \in start_idx..i : SubSeq(response_text, j, j) = "{"})
        - Cardinality({j \in start_idx..i : SubSeq(response_text, j, j) = "}"})
\* the first "}" at which brace_count is back to 0, where the loop breaks;
\* start_idx - 1 when the loop ends without a break
MatchingBrace(response_text, start_idx) ==
    LET closes == {i \in start_idx..Len(response_text) :
                      /\ SubSeq(response_text, i, i) = "}"
                      /\ BraceCount(response_text, start_idx, i) = 0}
    IN  IF closes = {} THEN start_idx - 1
        ELSE CHOOSE i \in closes : \A j \in closes : i <= j

\* lines 108-129
ExtractObject(response_text) ==
    IF Contains(response_text, "{") /\ Contains(response_text, "}")
    THEN LET start_idx == Find(response_text, "{")
             end_idx == MatchingBrace(response_text, start_idx)
         IN  IF end_idx >= start_idx
             THEN SubSeq(response_text, start_idx, end_idx)
             ELSE response_text
    ELSE response_text

\* the JSON text of a value, as json.dumps writes it
RECURSIVE JsonText(_)
JsonItems(xs) ==
    Join([i \in 1..Len(xs) |-> JsonText(xs[i])], ", ")
JsonMembers(es) ==
    Join([i \in 1..Len(es) |-> "\"" \o es[i].key \o "\": " \o JsonText(es[i].val)], ", ")
JsonText(v) ==
    CASE v.k = "null" -> "null"
      [] v.k = "int" -> ToString(v.i)
      [] v.k = "str" -> "\"" \o v.s \o "\""
      [] v.k = "bool" -> IF v.b THEN "true" ELSE "false"
      [] v.k = "list" -> "[" \o JsonItems(v.items) \o "]"
      [] v.k = "dict" -> "{" \o JsonMembers(v.d) \o "}"

\* the JSON values a completion may hold: intents, and what is not an intent
Intent(tool_name, arguments) ==
    PyDict(<<Entry("tool_name", tool_name), Entry("arguments", arguments)>>)
NoMatch == PyDict(<<Entry("tool_name", PyNull), Entry("error", PyStr("no match"))>>)
JsonValues == {
    Intent(PyStr("list_projects"), EmptyDict),
    PyDict(<<Entry("tool_name", PyStr("list_applications"))>>),
    Intent(PyStr("list_business_units"), PyDict(<<Entry("page", PyInt(1))>>)),
    Intent(PyStr("list_projects"), PyNull),
    Intent(PyStr("create_project"), PyDict(<<Entry("name", PyStr("{draft"))>>)),
    Intent(PyStr("create_project"), PyDict(<<Entry("name", PyStr("v1}"))>>)),
    PyDict(<<Entry("tool_name", PyStr(""))>>),
    NoMatch,
    EmptyDict,
    EmptyList }

\* json.loads(text): the value whose JSON text it is; None when it raises
\* JSONDecodeError.  No proper prefix of the text of a JSON object is the text of
\* a JSON value, so a text cut short by ExtractObject is rejected
JsonLoads(text) ==
    IF \E v \in JsonValues : JsonText(v) = Strip(text)
    THEN Some(CHOOSE v \in JsonValues : JsonText(v) = Strip(text))
    ELSE None

\* lines 94-131: from the completion's text to what json.loads returns
ParseCompletion(raw) == JsonLoads(ExtractObject(StripFence(Strip(raw))))

(***************************************************************************)
(* ClaudeResponseFormatter.format_result (claude_formatter.py): the        *)
(* completion call under asyncio.wait_for; out is its outcome.             *)
(***************************************************************************)
format_result(tool_name, result, original_query, conversation_history, out) ==
    CASE out.kind = "text" -> Ok(Strip(out.text))
      [] out.kind = "timeout" -> Raise("Claude formatting timed out after 10.0 seconds")
      [] out.kind = "error" -> Raise("Claude formatting failed: " \o out.text)

(***************************************************************************)
(* Initial state: the module globals of main.py before lifespan() runs,    *)
(* an empty Redis keyspace, no request received.                           *)
(***************************************************************************)
\* str(uuid.uuid4()): the n-th identifier generated, different from all others
Uuid(n) == "uuid-" \o ToString(n)
SessionIds == {"s1"} \cup {Uuid(n) : n \in 1..MaxRequests}

NoRequest == [query |-> "", session_id |-> None]
NoLocals == [session_id |-> "", history |-> << >>, tools |-> << >>, needs_both |-> FALSE,
             tool_name |-> "", arguments |-> PyNull, result |-> PyNull,
             formatted |-> ""]
\* history of a request: the store when it arrived, the outcomes the remote
\* services gave it, the step that failed and what the request did
NoHistory == [store0 |-> [s \in SessionIds |-> None], completion |-> None, primaryOut |-> None,
              secondaryOut |-> None,
              failed |-> "", escaped |-> FALSE, toolCalls |-> << >>, secondaryFailed |-> FALSE,
              primaryFailed |-> FALSE, fallback |-> None, appended |-> 0]

\* the concurrent callers of the store (two requests in flight) and the two
\* sessions they use: one whose id a request supplied, one whose id was generated
Callers == {1, 2}
StoreKeys == {"s1", Uuid(1)}
\* a select_tool call: the completion's text, response_text and json.loads' result
NoSelection == [pc |-> "idle", history |-> << >>, messages |-> << >>, value |-> PyNull,
                wrap |-> "", raw |-> "", response_text |-> "",
                parsed |-> None, result |-> ValueError("")]
\* a get_tools call in progress: the `now` of line 40 and the count of calls begun
NoFetcher == [pc |-> "idle", now |-> 0, seq |-> 0]
\* the lists the calls fetched, the latest _cache_time ever stored, the call whose
\* snapshot is held and the latest-begun call that ever stored one
NoCacheHistory == [n |-> 0, fetched |-> {}, latest |-> None, stored |-> 0, newest |-> 0]
\* the formatter's calls: how many, the first and the latest
NoCall == [tool_name |-> "", result |-> PyNull, out |-> Ok("")]
NoFormatting == [calls |-> 0, first |-> NoCall, last |-> NoCall]
NoWriter == [pc |-> "idle", sid |-> "", got |-> None, why |-> "", missed |-> {}]
NoOp == [op |-> "", sid |-> "", at |-> 0, arg |-> None, turn |-> 0, why |-> "", missed |-> {}]
\* history of the store: operations begun, writes done, turns appended, per
\* session the time of its last write (none: never written or deleted) and of the
\* first write since it was last absent, the sessions ever written, the last write
NoStoreHistory == [nops |-> 0, seq |-> 0, nturn |-> 0,
                   written |-> [s \in SessionIds |-> None],
                   first |-> [s \in SessionIds |-> None],
                   ever |-> {}, turns |-> [s \in SessionIds |-> {}], last |-> NoOp]

Init ==
    /\ now = 0
    /\ client = NewClient
    /\ lastGet = NoGet
    /\ redis = [s \in SessionIds |-> None]
    /\ seqno = [s \in SessionIds |-> 0]
    /\ base = [s \in SessionIds |-> 0]
    /\ pc = "boot"
    /\ req = NoRequest
    /\ loc = NoLocals
    /\ resp = None
    /\ hist = NoHistory
    /\ nreq = 0
    /\ nuuid = 0
    /\ writers = [c \in Callers |-> NoWriter]
    /\ shist = NoStoreHistory
    /\ sel = NoSelection
    /\ fetchers = [c \in Callers |-> NoFetcher]
    /\ chist = NoCacheHistory
    /\ fmt = NoFormatting

\* the clock advances by a minute.  Time 0 is the start of the service
Tick ==
    /\ pc = "idle"
    /\ now < MaxTime
    /\ now' = now + 1
    /\ UNCHANGED <<cacheVars, storeVars, reqVars, callerVars, sel, moreVars>>

\* lifespan() startup: mcp_client = MCPHTTPClient(url); await mcp_client.connect().
\* A failure is re-raised and the service does not start.
Startup ==
    /\ pc = "boot"
    /\ \E up \in BOOLEAN, out \in FetchOutcomes :
        IF ~up
        THEN /\ pc' = "failed"
             /\ UNCHANGED <<client, lastGet>>
        ELSE LET r == connect(client, now, out)
             IN  /\ client' = r.cl
                 /\ lastGet' = GetRecord([client EXCEPT !.session = TRUE], now, r)
                 /\ pc' = IF r.raised THEN "failed" ELSE "idle"
    /\ UNCHANGED <<now, callerVars, sel, storeVars, req, loc, resp, hist, nreq, nuuid, moreVars>>

\* GET /api/v1/tools: one sequential get_tools call (an error becomes HTTP 500)
ListToolsEndpoint ==
    /\ pc = "idle"
    /\ \E o1 \in FetchOutcomes, o2 \in FetchOutcomes :
        LET r == get_tools(client, now, <<o1, o2>>)
        IN  /\ client' = r.cl
            /\ lastGet' = GetRecord(client, now, r)
    /\ UNCHANGED <<now, callerVars, sel, storeVars, reqVars, moreVars>>

NextCache == Tick \/ Startup \/ ListToolsEndpoint
SpecCache == Init /\ [][NextCache]_vars

\* C8: a get_tools call performs a remote fetch if and only if no snapshot exists
\* or the snapshot is at least CacheTTL old, and never more than one.
C8_FetchIffNoSnapshotOrExpired ==
    lastGet.called =>
        Len(lastGet.res.fetched) =
            (IF \/ IsNone(lastGet.pre.tool_cache)
                \/ IsNone(lastGet.pre.cache_time)
                \/ lastGet.at - The(lastGet.pre.cache_time) >= CacheTTL
             THEN 1 ELSE 0)

\* C9: when the remote fetch of a get_tools call fails, the call raises and the
\* snapshot, its timestamp and the tool list are those from before the call.
C9_FetchFailureKeepsSnapshot ==
    (lastGet.called /\ \E i \in 1..Len(lastGet.res.fetched) : ~lastGet.res.fetched[i].ok) =>
        /\ lastGet.res.raised
        /\ lastGet.res.cl.tool_cache = lastGet.pre.tool_cache
        /\ lastGet.res.cl.cache_time = lastGet.pre.cache_time
        /\ lastGet.res.cl.tools = lastGet.pre.tools
        /\ client = lastGet.res.cl

\* a call whose fetch failed while an expired, non-empty snapshot was cached
C9_Witness ==
    /\ lastGet.called
    /\ Len(lastGet.res.fetched) = 1 /\ ~lastGet.res.fetched[1].ok
    /\ ~IsNone(lastGet.pre.tool_cache) /\ Len(The(lastGet.pre.tool_cache)) > 0
    /\ lastGet.at - The(lastGet.pre.cache_time) >= CacheTTL

(***************************************************************************)
(* get_tools called concurrently (two requests in flight).  A call runs    *)
(* without interruption up to `await self.session.list_tools()` (line 49)  *)
(* and again from the answer to its return: `now` is read at line 40,      *)
(* before the await, and stored as _cache_time at line 60, after it.       *)
(***************************************************************************)
MaxGetTools == 3

\* lines 40-49: the cache test; a call that finds no fresh snapshot starts a fetch
BeginGetTools(c) ==
    /\ pc = "idle"
    /\ fetchers[c].pc = "idle"
    /\ chist.n < MaxGetTools
    /\ fetchers' = [fetchers EXCEPT ![c] =
                      IF CacheFresh(client, now) THEN NoFetcher
                      ELSE [pc |-> "fetching", now |-> now, seq |-> chist.n + 1]]
    /\ chist' = [chist EXCEPT !.n = @ + 1]
    /\ UNCHANGED <<now, cacheVars, storeVars, reqVars, callerVars, sel, fmt>>

\* lines 49-61: list_tools answers or raises, and the call returns
FinishGetTools(c) ==
    /\ fetchers[c].pc = "fetching"
    /\ \E out \in FetchOutcomes :
        LET r == FetchTools(client, fetchers[c].now, out)
        IN  /\ client' = r.cl
            /\ chist' = IF r.raised THEN chist
                        ELSE [chist EXCEPT
                                !.fetched = @ \cup {out.tools},
                                !.latest = IF IsNone(@) \/ The(@) < fetchers[c].now
                                           THEN Some(fetchers[c].now) ELSE @,
                                !.stored = fetchers[c].seq,
                                !.newest = IF @ < fetchers[c].seq THEN fetchers[c].seq ELSE @]
    /\ fetchers' = [fetchers EXCEPT ![c] = NoFetcher]
    /\ UNCHANGED <<now, lastGet, storeVars, reqVars, callerVars, sel, fmt>>

NextRefresh ==
    \/ Startup
    \/ Tick
    \/ \E c \in Callers : BeginGetTools(c)
    \/ \E c \in Callers : FinishGetTools(c)
SpecRefresh == Init /\ [][NextRefresh]_vars

\* the tool lists fetched so far: by connect() at startup and by the calls since
FetchedLists ==
    chist.fetched \cup {lastGet.res.fetched[i].tools : i \in
                           {j \in 1..Len(lastGet.res.fetched) : lastGet.res.fetched[j].ok}}

\* C23: whatever the interleaving of concurrent get_tools calls, the snapshot is
\* absent or empty, or is exactly the list one fetch returned.
C23_SnapshotIsOneFetch ==
    \/ IsNone(client.tool_cache)
    \/ The(client.tool_cache) = << >>
    \/ /\ The(client.tool_cache) \in FetchedLists
       /\ client.tools = The(client.tool_cache)

\* two fetches were in flight together and returned different lists; the
\* snapshot is the one stored last
C23_Witness ==
    /\ Cardinality(chist.fetched) = 2
    /\ chist.newest = 2 /\ chist.stored = 1
    /\ ~IsNone(client.tool_cache) /\ Len(The(client.tool_cache)) > 0

\* C29: the _cache_time held is never earlier than one stored before, and the
\* snapshot held is never that of a call begun before the call whose snapshot it
\* replaced.
C29_TimestampNeverDecreases ==
    /\ (~IsNone(client.cache_time) /\ ~IsNone(chist.latest)) =>
        The(client.cache_time) >= The(chist.latest)
    /\ chist.stored >= chist.newest

(***************************************************************************)
(* The session store used on its own, as tests/test_redis_client.py does:  *)
(* sequential appends and deletes on one session.                          *)
(***************************************************************************)
QueryNo(n) == "query " \o ToString(n)
ResponseNo(n) == "response " \o ToString(n)
TestMetadata == PyDict(<<Entry("tool_name", PyStr("list_projects")), Entry("success", PyBool(TRUE))>>)
StoreSessions == {"s1"}

AppendTurn ==
    \E s \in StoreSessions :
        /\ seqno[s] < MaxAppends
        /\ redis' = append_conversation(redis, s, QueryNo(seqno[s] + 1), ResponseNo(seqno[s] + 1),
                                        TestMetadata, now, "ok").rd
        /\ seqno' = [seqno EXCEPT ![s] = seqno[s] + 1]
        /\ UNCHANGED <<now, callerVars, sel, base, cacheVars, reqVars, moreVars>>

DeleteSession ==
    \E s \in StoreSessions :
        /\ seqno[s] > base[s]
        /\ redis' = delete_session(redis, s)
        /\ base' = [base EXCEPT ![s] = seqno[s]]
        /\ UNCHANGED <<now, callerVars, sel, seqno, cacheVars, reqVars, moreVars>>

NextAppend == AppendTurn \/ DeleteSession
SpecAppend == Init /\ [][NextAppend]_vars

\* C10: after n appends on a session since its key was last absent, the stored
\* conversations are the last min(n, 50) appended turns, oldest first.
C10_LastFiftyInOrder ==
    \A s \in StoreSessions :
        LET n == seqno[s] - base[s]
            m == Min(n, 50)
            got == get_session_context(redis, s, now)
        IN  n > 0 =>
                /\ ~IsNone(got)
                /\ Len(Conversations(The(got))) = m
                /\ \A i \in 1..m :
                    /\ TurnQuery(Conversations(The(got))[i]) = QueryNo(seqno[s] - m + i)
                    /\ TurnResponse(Conversations(The(got))[i]) = ResponseNo(seqno[s] - m + i)

\* 55 appends on a new session: turns 6..55 are stored
C10_Witness ==
    /\ seqno["s1"] = 55 /\ base["s1"] = 0
    /\ Len(Conversations(The(get_session_context(redis, "s1", now)))) = 50
    /\ TurnQuery(Conversations(The(get_session_context(redis, "s1", now)))[1]) = QueryNo(6)
    /\ TurnQuery(Conversations(The(get_session_context(redis, "s1", now)))[50]) = QueryNo(55)

(***************************************************************************)
(* The session store under concurrent callers.  Two requests are in flight *)
(* on the event loop; a caller is suspended only at an await, so an append *)
(* is two steps (the GET of line 41, then lines 41-59 with the SETEX), a   *)
(* save and a delete are one.  Time passes half a session lifetime at once.*)
(***************************************************************************)
MaxStoreOps == 3
MaxElapse == 3

StoreQuery(sid, n) == sid \o " query " \o ToString(n)
StoreResponse(sid, n) == sid \o " response " \o ToString(n)

\* the context test_save_and_get_session_context saves, and one without turns
SavedContexts(sid) ==
    { PyDict(<<Entry("session_id", PyStr(sid)),
               Entry("created_at", PyStr("2024-01-01T00:00:00Z")),
               Entry("conversations",
                     PyList(<<PyDict(<<Entry("query", PyStr("test query")),
                                       Entry("response", PyStr("test response"))>>)>>))>>),
      PyDict(<<Entry("session_id", PyStr(sid)),
               Entry("conversations", PyList(<< >>))>>) }

\* why a session is absent at time t, "" when it is present, by the history alone
Absence(sid, t) ==
    IF IsNone(shist.written[sid])
    THEN (IF sid \in shist.ever THEN "deleted" ELSE "never")
    ELSE IF t - The(shist.written[sid]) >= SessionTTL THEN "expired" ELSE ""

\* the history after a write on sid at time t
Wrote(sid, t, op) ==
    [shist EXCEPT !.seq = @ + 1,
                  !.written[sid] = Some(t),
                  !.first[sid] = IF Absence(sid, t) = "" THEN @ ELSE Some(t),
                  !.ever = @ \cup {sid},
                  !.last = op]

\* a caller enters append_conversation: the GET of line 41
BeginAppend(c) ==
    /\ writers[c].pc = "idle"
    /\ shist.nops < MaxStoreOps
    /\ \E sid \in StoreKeys :
        writers' = [writers EXCEPT ![c] =
            [pc |-> "write", sid |-> sid, got |-> append_read(redis, sid, now),
             why |-> Absence(sid, now), missed |-> {}]]
    /\ shist' = [shist EXCEPT !.nops = @ + 1]
    /\ UNCHANGED <<now, cacheVars, storeVars, reqVars, sel, moreVars>>

\* the caller resumes: lines 41-59, ending with the SETEX
FinishAppend(c) ==
    /\ writers[c].pc = "write"
    /\ LET sid == writers[c].sid
           n == shist.nturn + 1
           r == append_write(redis, writers[c].got, sid, StoreQuery(sid, n),
                             StoreResponse(sid, n), TestMetadata, now)
           op == [NoOp EXCEPT !.op = "append", !.sid = sid, !.at = now, !.turn = n,
                              !.why = writers[c].why, !.missed = writers[c].missed]
       IN  /\ redis' = r.rd
           /\ writers' = [d \in Callers |->
                            IF d = c THEN NoWriter
                            ELSE IF writers[d].pc = "write" /\ writers[d].sid = sid
                            THEN [writers[d] EXCEPT !.missed = @ \cup {n}]
                            ELSE writers[d]]
           /\ shist' = [Wrote(sid, now, op) EXCEPT !.nturn = n, !.turns[sid] = @ \cup {n}]
    /\ UNCHANGED <<now, cacheVars, seqno, base, reqVars, sel, moreVars>>

\* save_session_context(session_id, context)
SaveContext ==
    /\ shist.nops < MaxStoreOps
    /\ \E sid \in StoreKeys : \E context \in SavedContexts(sid) :
        /\ redis' = save_session_context(redis, sid, context, now)
        /\ shist' = [Wrote(sid, now, [NoOp EXCEPT !.op = "save", !.sid = sid, !.at = now,
                                                  !.arg = Some(context)])
                        EXCEPT !.nops = @ + 1]
    /\ UNCHANGED <<now, cacheVars, seqno, base, reqVars, sel, writers, moreVars>>

\* delete_session(session_id)
DeleteKey ==
    /\ shist.nops < MaxStoreOps
    /\ \E sid \in StoreKeys :
        /\ redis' = delete_session(redis, sid)
        /\ shist' = [shist EXCEPT !.nops = @ + 1, !.seq = @ + 1,
                                  !.written[sid] = None, !.first[sid] = None,
                                  !.last = [NoOp EXCEPT !.op = "delete", !.sid = sid,
                                                        !.at = now]]
    /\ UNCHANGED <<now, cacheVars, seqno, base, reqVars, sel, writers, moreVars>>

\* half a session lifetime passes
Elapse ==
    /\ now < MaxElapse * (SessionTTL \div 2)
    /\ now' = now + SessionTTL \div 2
    /\ UNCHANGED <<cacheVars, storeVars, reqVars, callerVars, sel, moreVars>>

NextStore ==
    \/ \E c \in Callers : BeginAppend(c)
    \/ \E c \in Callers : FinishAppend(c)
    \/ SaveContext
    \/ DeleteKey
    \/ Elapse
SpecStore == Init /\ [][NextStore]_vars

\* what get_session_context returned right after the last write, and its queries
StoredAfterLast == get_session_context(redis, shist.last.sid, shist.last.at)
QueriesOf(context) ==
    {TurnQuery(Conversations(context)[i]) : i \in 1..Len(Conversations(context))}

\* C11: an append whose GET came before another append's write on the same session
\* stores its own turn and none of the turns written in between: they are lost.
C11_LaterWriteDropsEarlierTurn ==
    (shist.last.op = "append" /\ shist.last.missed # {}) =>
        /\ ~IsNone(StoredAfterLast)
        /\ StoreQuery(shist.last.sid, shist.last.turn) \in QueriesOf(The(StoredAfterLast))
        /\ \A n \in shist.last.missed :
            StoreQuery(shist.last.sid, n) \notin QueriesOf(The(StoredAfterLast))

\* two appends on a new session interleaved: one turn is stored, two were appended
C11_Witness ==
    /\ shist.last.op = "append"
    /\ shist.last.missed # {}
    /\ shist.nturn = 2 /\ shist.seq = 2
    /\ Cardinality(shist.turns[shist.last.sid]) = 2
    /\ Len(Conversations(The(StoredAfterLast))) = 1

\* the turns of every session stored now are turns appended under its own id
OwnTurnsOnly ==
    \A s \in StoreKeys : \A u \in StoreKeys :
        (s # u /\ ~IsNone(get_session_context(redis, s, now))) =>
            \A n \in shist.turns[u] :
                StoreQuery(u, n) \notin QueriesOf(The(get_session_context(redis, s, now)))
\* a step changes the stored value of a session only by a write on that session
OwnWritesOnly ==
    \A s \in DOMAIN redis :
        redis'[s] # redis[s] => (shist'.seq = shist.seq + 1 /\ shist'.last.sid = s)

\* C12: a write (append, save, delete) on one session id leaves every other
\* session's stored value as it was, and a session holds no turn appended under
\* another id, however the callers' steps interleave.
C12_SessionsIsolated == []OwnTurnsOnly /\ [][OwnWritesOnly]_vars

\* both sessions hold a turn of their own while an append on one is in progress
C12_Witness ==
    /\ \A s \in StoreKeys :
        /\ shist.turns[s] # {}
        /\ ~IsNone(get_session_context(redis, s, now))
        /\ Len(Conversations(The(get_session_context(redis, s, now)))) > 0
    /\ \E c \in Callers : writers[c].pc = "write"

\* C13: a session is absent exactly when it was never written, was deleted, or a
\* full lifetime has passed since its last write, whenever its first write was.
C13_ExpiryFromLastWrite ==
    \A s \in StoreKeys :
        IsNone(get_session_context(redis, s, now)) <=>
            \/ IsNone(shist.written[s])
            \/ now - The(shist.written[s]) >= SessionTTL

\* written at 0 and again half a lifetime later: present at the first deadline
C13_Witness ==
    \E s \in StoreKeys :
        /\ shist.first[s] = Some(0)
        /\ shist.written[s] = Some(SessionTTL \div 2)
        /\ now = SessionTTL
        /\ ~IsNone(get_session_context(redis, s, now))

\* C14: a session never written or deleted is absent, and an append that found
\* its session absent (never written, deleted or expired) leaves a context that
\* holds exactly its one turn.
C14_AbsentThenFresh ==
    /\ \A s \in StoreKeys :
        IsNone(shist.written[s]) => IsNone(get_session_context(redis, s, now))
    /\ (shist.last.op = "append" /\ shist.last.why # "") =>
        /\ ~IsNone(StoredAfterLast)
        /\ Get(The(StoredAfterLast), "session_id", PyNull) = PyStr(shist.last.sid)
        /\ Len(Conversations(The(StoredAfterLast))) = 1
        /\ TurnQuery(Conversations(The(StoredAfterLast))[1])
               = StoreQuery(shist.last.sid, shist.last.turn)

\* an append on a session whose earlier turn has expired
C14_Witness ==
    /\ shist.last.op = "append"
    /\ shist.last.why = "expired"
    /\ Cardinality(shist.turns[shist.last.sid]) = 2
    /\ Len(Conversations(The(StoredAfterLast))) = 1

\* C15: right after save(session_id, context), get(session_id) returns that
\* context, whatever the key held before.
C15_SaveThenGet ==
    shist.last.op = "save" => StoredAfterLast = shist.last.arg

\* a save over a session that held an appended turn
C15_Witness ==
    /\ shist.last.op = "save"
    /\ shist.turns[shist.last.sid] # {}
    /\ shist.first[shist.last.sid] # Some(shist.last.at)
    /\ Len(Conversations(The(StoredAfterLast))) = 0

(***************************************************************************)
(* select_tool on its own: a completion arrives, which is a JSON value     *)
(* alone, inside a fence, after or before prose, or prose only; the text   *)
(* is reduced step by step as in lines 94-131, parsed, and the intent or   *)
(* the error of lines 133-158 is the result.                               *)
(***************************************************************************)
Wraps == {"alone", "fenced", "plain_fence", "trailing", "leading"}
Wrap(text, w) ==
    CASE w = "alone" -> text
      [] w = "fenced" -> FenceJson \o "\n" \o text \o "\n" \o Fence
      [] w = "plain_fence" -> Fence \o "\n" \o text \o "\n" \o Fence
      [] w = "trailing" -> text \o "\n\nThis tool lists what you asked for.\n"
      [] w = "leading" -> "I will use this tool: " \o text
Prose == "Sorry, I cannot help with that."

\* the conversation_history main.py has loaded when it calls select_tool
\* (lines 192-194): none, one or two earlier turns of the session
Histories ==
    {[i \in 1..n |-> Turn(i, QueryNo(i), ResponseNo(i), TestMetadata)] : n \in 0..2}

\* lines 76-91: user_prompt and the messages given to messages.create.  The
\* tools are listed by name (descriptions, parameters and headers left out)
SelectionMessages(query, available_tools) ==
    <<[role |-> "user",
       content |-> "Available tools:\n"
                   \o Join([i \in 1..Len(available_tools) |-> "- " \o available_tools[i]], "\n")
                   \o "\n\nUser query: " \o query \o "\n\nRespond with JSON only:"]>>

\* select_tool is called and messages.create returns; lines 84-95
Complete ==
    /\ sel.pc \in {"idle", "done"}
    /\ \E h \in Histories :
        \/ \E v \in JsonValues, w \in Wraps :
            sel' = [NoSelection EXCEPT !.pc = "fence", !.value = v, !.wrap = w,
                                       !.history = h,
                                       !.messages = SelectionMessages("list projects", << >>),
                                       !.raw = Wrap(JsonText(v), w),
                                       !.response_text = Strip(Wrap(JsonText(v), w))]
        \/ sel' = [NoSelection EXCEPT !.pc = "fence", !.wrap = "prose", !.raw = Prose,
                                      !.history = h,
                                      !.messages = SelectionMessages("list projects", << >>),
                                      !.response_text = Strip(Prose)]
    /\ UNCHANGED <<now, cacheVars, storeVars, reqVars, callerVars, moreVars>>

\* lines 101-104
RemoveFence ==
    /\ sel.pc = "fence"
    /\ sel' = [sel EXCEPT !.pc = "braces", !.response_text = StripFence(@)]
    /\ UNCHANGED <<now, cacheVars, storeVars, reqVars, callerVars, moreVars>>

\* lines 108-129
MatchBraces ==
    /\ sel.pc = "braces"
    /\ sel' = [sel EXCEPT !.pc = "loads", !.response_text = ExtractObject(@)]
    /\ UNCHANGED <<now, cacheVars, storeVars, reqVars, callerVars, moreVars>>

\* lines 131-158
ParseAndReturn ==
    /\ sel.pc = "loads"
    /\ LET result == JsonLoads(sel.response_text)
       IN  sel' = [sel EXCEPT !.pc = "done", !.parsed = result,
                              !.result = select_tool("list projects", << >>,
                                                     Completion(sel.raw, result))]
    /\ UNCHANGED <<now, cacheVars, storeVars, reqVars, callerVars, moreVars>>

NextSelect == Complete \/ RemoveFence \/ MatchBraces \/ ParseAndReturn
SpecSelect == Init /\ [][NextSelect]_vars

\* C18: for a JSON object J, the object json.loads is given is the same whether
\* the completion is J alone, J inside a json fence, or J followed by prose.
C18_SameObjectHoweverWrapped ==
    (sel.pc = "done" /\ sel.value.k = "dict" /\ sel.wrap \in {"alone", "fenced", "trailing"}) =>
        sel.parsed = ParseCompletion(JsonText(sel.value))

\* C25: the completion call of select_tool gets a user and an assistant message
\* for each earlier turn of the session, oldest first, then the current query
\* as the last message.
C25_HistoryThenQuery ==
    sel.pc # "idle" =>
        /\ Len(sel.messages) = 2 * Len(sel.history) + 1
        /\ \A i \in 1..Len(sel.history) :
            /\ sel.messages[2 * i - 1] =
                   [role |-> "user", content |-> TurnQuery(sel.history[i])]
            /\ sel.messages[2 * i] =
                   [role |-> "assistant", content |-> TurnResponse(sel.history[i])]
        /\ sel.messages[Len(sel.messages)].role = "user"
        /\ Contains(sel.messages[Len(sel.messages)].content, "list projects")

\* the tool_name of the parsed value is null or absent
NameMissing(parsed) ==
    \/ parsed.k # "dict"
    \/ Get(parsed, "tool_name", PyNull).k = "null"

\* C19: when the extracted text does not parse, or the parsed tool_name is null
\* or absent, select_tool raises the error with the completion's text in it; an
\* intent it returns never has an empty tool name.
C19_FailureCarriesRawText ==
    sel.pc = "done" =>
        /\ (IsNone(sel.parsed) \/ NameMissing(The(sel.parsed))) =>
            /\ ~sel.result.ok
            /\ Contains(sel.result.text, Strip(sel.raw))
        /\ sel.result.ok => sel.result.tool_name # ""

\* {"tool_name": null, "error": "no match"} inside a fence was resolved
C19_Witness ==
    /\ sel.pc = "done"
    /\ sel.value = NoMatch
    /\ sel.wrap = "fenced"
    /\ ~sel.result.ok
    /\ Contains(sel.result.text, "no match")

(***************************************************************************)
(* process_query (main.py, lines 174-320), one action per awaited call.    *)
(* main.py calls select_tool with a conversation_history keyword and       *)
(* imports the fallback formatter as FallbackResponseFormatter; the bodies *)
(* modelled are ClaudeToolSelector.select_tool and ResponseFormatter as    *)
(* they stand in claude_adapter.py and response_formatter.py.              *)
(***************************************************************************)
Queries == {"list projects", "List Apps and Projects"}
RequestSessionIds == {None, Some(""), Some("s1")}

ProjectList == PyDict(<<Entry("results",
    PyList(<<PyDict(<<Entry("id", PyInt(1)), Entry("name", PyStr("Alpha"))>>)>>))>>)
ApplicationList == PyDict(<<Entry("applications",
    PyList(<<PyDict(<<Entry("id", PyInt(7)), Entry("name", PyStr("Shop"))>>)>>))>>)
ToolOutcomes == { RemoteError("connection lost"),
                  JsonContent(ProjectList),
                  JsonContent(ApplicationList),
                  JsonContent(EmptyDict),
                  TextContent("Internal Server Error"),
                  NoTextContent }

\* the texts messages.create returns to a request, each with what lines 94-131
\* make of it
CompletionTexts == {
    Prose,
    JsonText(NoMatch),
    JsonText(EmptyDict),
    JsonText(PyDict(<<Entry("tool_name", PyStr(""))>>)),
    Wrap(JsonText(Intent(PyStr("list_projects"), EmptyDict)), "fenced"),
    JsonText(Intent(PyStr("list_projects"), PyNull)),
    JsonText(PyDict(<<Entry("tool_name", PyStr("list_applications"))>>)),
    Wrap(JsonText(Intent(PyStr("list_business_units"), PyDict(<<Entry("page", PyInt(1))>>))),
         "trailing") }
Completions ==
    {ApiFailure} \cup {Completion(raw, ParseCompletion(raw)) : raw \in CompletionTexts}

FormatOutcomes == { [kind |-> "text", text |-> "Here is what I found.\n"],
                    [kind |-> "timeout", text |-> ""],
                    [kind |-> "error", text |-> "overloaded"] }

RedisOutcomes == {"ok", "get_fails", "set_fails"}

QueryResponse(response, success, session_id, tool_name, error) ==
    [response |-> response, success |-> success, session_id |-> session_id,
     tool_name |-> tool_name, error |-> error]

\* mutant: the envelope carries the request's session id, not the one of line 190
OuterExcept_RequestSessionId(e) ==
    QueryResponse("An error occurred: " \o e, FALSE,
                  IF IsNone(req.session_id) THEN "" ELSE The(req.session_id), None, Some(e))

\* the handler of `except Exception as e` at lines 313-320
OuterExcept(e) ==
    QueryResponse("An error occurred: " \o e, FALSE, loc.session_id, None, Some(e))

\* mutant: the envelope of a resolution failure without its error
SelectionFailure_NoError(e) == QueryResponse(e, FALSE, loc.session_id, None, None)

\* the handler of `except ValueError as e` at lines 221-228
SelectionFailure(e) == QueryResponse(e, FALSE, loc.session_id, None, Some(e))

\* mutant: the envelope of a failed tool call without the tool's name
ToolFailure_NoToolName(e) ==
    QueryResponse("Failed to execute tool: " \o e, FALSE, loc.session_id, None, Some(e))

\* the handler of `except Exception as e` at lines 233-241
ToolFailure(e) ==
    QueryResponse("Failed to execute tool '" \o loc.tool_name \o "': " \o e,
                  FALSE, loc.session_id, Some(loc.tool_name), Some(e))

\* the request ends with an envelope
Return(envelope, failed) ==
    /\ resp' = Some(envelope)
    /\ hist' = [hist EXCEPT !.failed = failed]
    /\ pc' = "done"

\* mutant: every query counts as naming applications
NeedsApplications_Always(query) == TRUE

\* lines 209-212
NeedsApplications(query) ==
    \E word \in {"application", "applications", "app", "apps"} : Contains(Lower(query), word)
NeedsProjects(query) ==
    \E word \in {"project", "projects"} : Contains(Lower(query), word)

\* a request arrives; line 190: session_id = request.session_id or str(uuid.uuid4())
Receive ==
    /\ pc \in {"idle", "done"}
    /\ nreq < MaxRequests
    /\ \E query \in Queries, sid \in RequestSessionIds :
        LET generate == IsNone(sid) \/ The(sid) = ""
        IN  /\ req' = [query |-> query, session_id |-> sid]
            /\ nuuid' = IF generate THEN nuuid + 1 ELSE nuuid
            /\ loc' = [NoLocals EXCEPT
                          !.session_id = IF generate THEN Uuid(nuuid + 1) ELSE The(sid)]
    /\ nreq' = nreq + 1
    /\ resp' = None
    /\ hist' = [NoHistory EXCEPT !.store0 = redis]
    /\ pc' = "load"
    /\ UNCHANGED <<now, callerVars, sel, cacheVars, storeVars, moreVars>>

\* lines 193-194, outside the try: a Redis error leaves the handler as an exception
LoadHistory ==
    /\ pc = "load"
    /\ \E out \in {"ok", "get_fails"} :
        IF out = "ok"
        THEN LET session_context == get_session_context(redis, loc.session_id, now)
             IN  /\ loc' = [loc EXCEPT !.history =
                               IF IsNone(session_context) THEN << >>
                               ELSE Conversations(The(session_context))]
                 /\ pc' = "tools"
                 /\ UNCHANGED <<resp, hist>>
        ELSE /\ pc' = "done"
             /\ hist' = [hist EXCEPT !.failed = "load", !.escaped = TRUE]
             /\ UNCHANGED <<loc, resp>>
    /\ UNCHANGED <<now, callerVars, sel, cacheVars, storeVars, req, nreq, nuuid, moreVars>>

\* lines 198-212
GetTools ==
    /\ pc = "tools"
    /\ \E o1 \in FetchOutcomes, o2 \in FetchOutcomes :
        LET r == get_tools(client, now, <<o1, o2>>)
        IN  /\ client' = r.cl
            /\ lastGet' = GetRecord(client, now, r)
            /\ IF r.raised
               THEN Return(OuterExcept("list_tools failed"), "tools") /\ UNCHANGED loc
               ELSE IF Len(r.ret) = 0
               THEN /\ Return(QueryResponse("No tools available from MCP server", FALSE,
                                            loc.session_id, None, Some("No tools available")),
                              "no_tools")
                    /\ UNCHANGED loc
               ELSE /\ loc' = [loc EXCEPT !.tools = r.ret,
                                          !.needs_both = NeedsApplications(req.query)
                                                         /\ NeedsProjects(req.query)]
                    /\ pc' = "select"
                    /\ UNCHANGED <<resp, hist>>
    /\ UNCHANGED <<now, callerVars, sel, storeVars, req, nreq, nuuid, moreVars>>

\* lines 214-228
SelectTool ==
    /\ pc = "select"
    /\ \E c \in Completions :
        LET r == select_tool(req.query, loc.tools, c)
        IN  IF r.ok
            THEN /\ loc' = [loc EXCEPT !.tool_name = r.tool_name, !.arguments = r.arguments]
                 /\ hist' = [hist EXCEPT !.completion = Some(c)]
                 /\ pc' = "call"
                 /\ UNCHANGED resp
            ELSE /\ resp' = Some(SelectionFailure(r.text))
                 /\ hist' = [hist EXCEPT !.completion = Some(c), !.failed = "select"]
                 /\ pc' = "done"
                 /\ UNCHANGED loc
    /\ UNCHANGED <<now, callerVars, sel, cacheVars, storeVars, req, nreq, nuuid, moreVars>>

\* lines 230-241
CallPrimary ==
    /\ pc = "call"
    /\ \E out \in ToolOutcomes :
        LET r == call_tool(out)
            called == [hist EXCEPT !.toolCalls = Append(@, loc.tool_name),
                                   !.primaryOut = Some(out)]
        IN  IF r.ok
            THEN /\ loc' = [loc EXCEPT !.result = r.value]
                 /\ hist' = called
                 /\ pc' = IF loc.needs_both
                             /\ loc.tool_name \in {"list_applications", "list_projects"}
                          THEN "secondary" ELSE "format"
                 /\ UNCHANGED resp
            ELSE /\ resp' = Some(ToolFailure(r.text))
                 /\ hist' = [called EXCEPT !.failed = "call"]
                 /\ pc' = "done"
                 /\ UNCHANGED loc
    /\ UNCHANGED <<now, callerVars, sel, cacheVars, storeVars, req, nreq, nuuid, moreVars>>

\* `result.get("results", result.get(kind, []))`
ListOf(result, kind) == Get(result, "results", Get(result, kind, EmptyList))

\* lines 243-279: the second list call and the merge of the two results
CallSecondary ==
    /\ pc = "secondary"
    /\ \E out \in ToolOutcomes :
        LET r == call_tool(out)
            other == IF loc.tool_name = "list_applications"
                     THEN "list_projects" ELSE "list_applications"
            called == [hist EXCEPT !.toolCalls = Append(@, other),
                                   !.secondaryOut = Some(out),
                                   !.secondaryFailed = ~r.ok]
            bothDicts == r.ok /\ loc.result.k = "dict" /\ r.value.k = "dict"
        IN  IF loc.tool_name = "list_applications"
            THEN \* `if needs_both and projects_result and ...`, then the merge and
                 \* the log line with len() of both lists
                 IF bothDicts /\ Truthy(r.value)
                 THEN LET applications_data == ListOf(loc.result, "applications")
                          projects_data == ListOf(r.value, "projects")
                      IN  IF Sized(applications_data) /\ Sized(projects_data)
                          THEN /\ loc' = [loc EXCEPT !.result =
                                            PyDict(<<Entry("applications", applications_data),
                                                     Entry("projects", projects_data)>>)]
                               /\ hist' = called
                               /\ pc' = "format"
                               /\ UNCHANGED resp
                          ELSE /\ resp' = Some(OuterExcept("TypeError"))
                               /\ hist' = [called EXCEPT !.failed = "merge"]
                               /\ pc' = "done"
                               /\ UNCHANGED loc
                 ELSE /\ hist' = called
                      /\ pc' = "format"
                      /\ UNCHANGED <<loc, resp>>
            ELSE /\ loc' = [loc EXCEPT !.result =
                               IF bothDicts
                               THEN PyDict(<<Entry("projects", ListOf(loc.result, "projects")),
                                             Entry("applications",
                                                   ListOf(r.value, "applications"))>>)
                               ELSE @]
                 /\ hist' = called
                 /\ pc' = "format"
                 /\ UNCHANGED resp
    /\ UNCHANGED <<now, callerVars, sel, cacheVars, storeVars, req, nreq, nuuid, moreVars>>

\* lines 281-292: the completion-based formatter, else the fallback formatter
FormatResponse ==
    /\ pc = "format"
    /\ \E out \in FormatOutcomes :
        LET primary == format_result(loc.tool_name, loc.result, req.query, loc.history, out)
            fallback == format_tool_result(loc.tool_name, loc.result)
        IN  IF primary.ok
            THEN /\ loc' = [loc EXCEPT !.formatted = primary.text]
                 /\ pc' = "persist"
                 /\ UNCHANGED <<resp, hist>>
            ELSE IF fallback.ok
            THEN /\ loc' = [loc EXCEPT !.formatted = fallback.text]
                 /\ hist' = [hist EXCEPT !.primaryFailed = TRUE, !.fallback = Some(fallback.text)]
                 /\ pc' = "persist"
                 /\ UNCHANGED resp
            ELSE /\ resp' = Some(OuterExcept(fallback.text))
                 /\ hist' = [hist EXCEPT !.primaryFailed = TRUE, !.failed = "fallback"]
                 /\ pc' = "done"
                 /\ UNCHANGED loc
    /\ UNCHANGED <<now, callerVars, sel, cacheVars, storeVars, req, nreq, nuuid, moreVars>>

\* lines 294-311: the turn is appended, then the envelope is returned
Persist ==
    /\ pc = "persist"
    /\ \E out \in RedisOutcomes :
        LET r == append_conversation(redis, loc.session_id, req.query, loc.formatted,
                                     PyDict(<<Entry("tool_name", PyStr(loc.tool_name)),
                                              Entry("success", PyBool(TRUE))>>), now, out)
        IN  IF r.raised
            THEN /\ resp' = Some(OuterExcept("redis: " \o out))
                 /\ hist' = [hist EXCEPT !.failed = "persist"]
                 /\ UNCHANGED redis
            ELSE /\ redis' = r.rd
                 /\ resp' = Some(QueryResponse(loc.formatted, TRUE, loc.session_id,
                                               Some(loc.tool_name), None))
                 /\ hist' = [hist EXCEPT !.appended = @ + 1]
    /\ pc' = "done"
    /\ UNCHANGED <<now, callerVars, sel, cacheVars, seqno, base, req, loc, nreq, nuuid, moreVars>>

\* between two requests the lifetime of a snapshot passes (the clock is read only
\* by get_tools and by the store, so the time that passes during a request is
\* counted after it; SpecCache has the clock minute by minute)
IdleForTTL ==
    /\ pc \in {"idle", "done"}
    /\ nreq < MaxRequests
    /\ now + CacheTTL <= MaxTime
    /\ now' = now + CacheTTL
    /\ UNCHANGED <<cacheVars, storeVars, reqVars, callerVars, sel, moreVars>>

Next ==
    \/ IdleForTTL
    \/ Startup
    \/ Receive
    \/ LoadHistory
    \/ GetTools
    \/ SelectTool
    \/ CallPrimary
    \/ CallSecondary
    \/ FormatResponse
    \/ Persist
Spec == Init /\ [][Next]_vars

\* messages.create (claude_adapter.py 84-91) and session.call_tool (main.py 232,
\* mcp_client.py 68) are awaited without a deadline: when the remote side never
\* answers, the request stays where it is
SelectNeverReturns ==
    /\ pc = "select"
    /\ pc' = "select_waiting"
    /\ UNCHANGED <<now, callerVars, sel, cacheVars, storeVars, req, loc, resp, hist, nreq, nuuid, moreVars>>
CallNeverReturns ==
    /\ pc = "call"
    /\ pc' = "call_waiting"
    /\ UNCHANGED <<now, callerVars, sel, cacheVars, storeVars, req, loc, resp, hist, nreq, nuuid, moreVars>>

\* the handler with remote calls that may never return
NextWaiting == Next \/ SelectNeverReturns \/ CallNeverReturns
SpecWaiting == Init /\ [][NextWaiting]_vars

\* C24: a request whose intent-resolution or tool call never returns is not
\* blocked: a step remains for it (the deadline that cuts the call off and leads
\* to the failure envelope).
C24_RemoteCallsBounded ==
    pc \in {"select_waiting", "call_waiting"} => ENABLED NextWaiting

(***************************************************************************)
(* ResponseFormatter used on its own: format_tool_result is called with a  *)
(* list tool's name and a result, several times on the one instance that   *)
(* main.py keeps (fallback_formatter).                                     *)
(***************************************************************************)
MaxItems == 12
MaxFormats == 3

\* the i-th item of a list result, and lists of n of them
Item(i) == PyDict(<<Entry("id", PyInt(100 + i)),
                    Entry("name", PyStr("N" \o (IF i < 10 THEN "0" ELSE "") \o ToString(i)))>>)
Items(n) == PyList([i \in 1..n |-> Item(i)])
ListResults ==
    {PyDict(<<Entry(key, Items(n))>>) :
        key \in {"results", "projects", "applications"}, n \in {0, 1, 10, 11, MaxItems}}
        \cup {ProjectList, EmptyList}

\* fallback_formatter.format_tool_result(tool_name, result), main.py 292
FormatFallback ==
    /\ fmt.calls < MaxFormats
    /\ \E tool_name \in {"list_projects", "list_applications"}, result \in ListResults :
        LET call == [tool_name |-> tool_name, result |-> result,
                     out |-> format_tool_result(tool_name, result)]
        IN  fmt' = [calls |-> fmt.calls + 1,
                    first |-> IF fmt.calls = 0 THEN call ELSE fmt.first,
                    last |-> call]
    /\ UNCHANGED <<now, cacheVars, storeVars, reqVars, callerVars, sel, fetchers, chist>>

NextFormat == FormatFallback
SpecFormat == Init /\ [][NextFormat]_vars

ListRead ==
    IF fmt.last.tool_name = "list_projects"
    THEN Get(fmt.last.result, "results", Get(fmt.last.result, "projects", EmptyList)).items
    ELSE Get(fmt.last.result, "applications", EmptyList).items
Noun == IF fmt.last.tool_name = "list_projects" THEN "project" ELSE "application"
LineOf(i) ==
    ToString(i) \o ". " \o Get(ListRead[i], "name", Unknown).s
        \o " (ID: " \o ToString(Get(ListRead[i], "id", Unknown).i) \o ")"

\* C26: for a list of n items the text gives n, then the first min(n, 10) items
\* in input order and no other, and ends with "... and N more" for N = n - 10
\* exactly when n > 10; list_projects reads "results", else "projects".
C26_CountFirstTenAndMore ==
    (fmt.calls > 0 /\ fmt.last.result.k = "dict") =>
        LET n == Len(ListRead)
            text == fmt.last.out.text
        IN  /\ fmt.last.out.ok
            /\ n = 0 => text = "No " \o Noun \o "s found."
            /\ n > 0 =>
                /\ Contains(text, "Found " \o ToString(n) \o " " \o Noun \o "(s):\n" \o LineOf(1))
                /\ \A i \in 1..(Min(n, 10) - 1) :
                    Contains(text, LineOf(i) \o "\n" \o LineOf(i + 1))
                /\ \A i \in 11..n : ~Contains(text, LineOf(i))
                /\ Contains(text, " more ") <=> n > 10
                /\ n > 10 => Contains(text, LineOf(10) \o "\n\n... and " \o ToString(n - 10)
                                            \o " more " \o Noun \o "s.")
            /\ (fmt.last.tool_name = "list_projects" /\ fmt.last.result = ProjectList) =>
                /\ Contains(text, "Found 1 project(s)")
                /\ Contains(text, "Alpha (ID: 1)")

\* a list of more than 10 applications was formatted
C26_Witness ==
    /\ fmt.calls > 0
    /\ fmt.last.tool_name = "list_applications"
    /\ fmt.last.result = PyDict(<<Entry("applications", Items(MaxItems))>>)
    /\ fmt.last.out.ok
    /\ Contains(fmt.last.out.text, "more applications.")

(***************************************************************************)
(* Claims about process_query.                                             *)
(***************************************************************************)
Finished == pc = "done"
Envelope == The(resp)

\* C1: every request ends with an envelope whose success and session_id are
\* populated; no failure leaves the handler as an exception.
C1_AlwaysAnEnvelope ==
    Finished => /\ ~hist.escaped
                /\ ~IsNone(resp)
                /\ Envelope.session_id # ""

\* C2: when appending the turn fails, the formatted response is returned with
\* success=true and without an error.
C2_PersistFailureNotSurfaced ==
    (Finished /\ hist.failed = "persist") =>
        /\ ~IsNone(resp)
        /\ Envelope.success
        /\ Envelope.response = loc.formatted
        /\ IsNone(Envelope.error)

\* the completion does not parse, or its tool_name is null, absent or empty
ResolutionFails(c) ==
    \/ ~c.api_ok
    \/ IsNone(c.parsed)
    \/ The(c.parsed).k # "dict"
    \/ ~Truthy(Get(The(c.parsed), "tool_name", PyNull))
\* the tool the completion names
ResolvedTool == Get(The(The(hist.completion).parsed), "tool_name", PyNull).s
PrimaryCallFailed == ~IsNone(hist.primaryOut) /\ The(hist.primaryOut).kind = "error"

\* C3: when intent resolution fails, the request ends at once with success=false
\* and tool_name=null, no tool is invoked and the session store is not written.
C3_ResolutionFailure ==
    (~IsNone(hist.completion) /\ ResolutionFails(The(hist.completion))) =>
        /\ Finished
        /\ ~IsNone(resp)
        /\ ~Envelope.success
        /\ IsNone(Envelope.tool_name)
        /\ hist.toolCalls = << >>
        /\ hist.appended = 0
        /\ redis = hist.store0

\* the completion {"tool_name": null, "error": "no match"} was received
C3_Witness ==
    /\ Finished
    /\ ~IsNone(hist.completion)
    /\ The(hist.completion).raw = "{\"tool_name\": null, \"error\": \"no match\"}"
    /\ ~IsNone(resp) /\ ~Envelope.success

\* C4: when the primary tool call fails, the request ends at once with
\* success=false, tool_name the resolved tool, a response that contains the tool
\* name, and the session store is not written.
C4_ToolFailure ==
    PrimaryCallFailed =>
        /\ Finished
        /\ ~IsNone(resp)
        /\ ~Envelope.success
        /\ Envelope.tool_name = Some(ResolvedTool)
        /\ Contains(Envelope.response, ResolvedTool)
        /\ hist.toolCalls = <<ResolvedTool>>
        /\ hist.appended = 0
        /\ redis = hist.store0

\* list_projects was resolved and its call failed
C4_Witness ==
    /\ Finished
    /\ PrimaryCallFailed
    /\ ResolvedTool = "list_projects"
    /\ ~IsNone(resp) /\ ~Envelope.success

\* the turn the request appended last to its session
StoredTurn ==
    LET c == Conversations(The(get_session_context(redis, loc.session_id, now)))
    IN  c[Len(c)]

\* C5: when the primary formatting call fails, the request ends with success=true,
\* the fallback formatter's output as the response, and the turn appended with it.
C5_FallbackThenPersist ==
    (Finished /\ hist.primaryFailed) =>
        /\ ~IsNone(resp)
        /\ Envelope.success
        /\ format_tool_result(loc.tool_name, loc.result).ok
        /\ Envelope.response = format_tool_result(loc.tool_name, loc.result).text
        /\ hist.appended = 1
        /\ TurnResponse(StoredTurn) = Envelope.response

\* C6: when the primary path fails, the fallback formatter returns a string for the
\* tool result, whatever its JSON type, and the request does not fail on formatting.
C6_FallbackNeverFails ==
    hist.primaryFailed =>
        /\ format_tool_result(loc.tool_name, loc.result).ok
        /\ hist.failed # "fallback"

\* a session id was supplied with the request
Supplied == ~IsNone(req.session_id) /\ The(req.session_id) # ""

\* C7: every envelope has a session id: the request's when one was supplied, else
\* the identifier generated for this request, which no stored session has.
C7_SessionIdPopulated ==
    ~IsNone(resp) =>
        /\ Envelope.session_id # ""
        /\ Supplied => Envelope.session_id = The(req.session_id)
        /\ ~Supplied => /\ Envelope.session_id = Uuid(nuuid)
                        /\ IsNone(hist.store0[Envelope.session_id])

\* a failure envelope for a request that carried no session id
C7_Witness ==
    /\ ~IsNone(resp)
    /\ IsNone(req.session_id)
    /\ ~Envelope.success
    /\ hist.failed = "tools"

\* what the two list calls returned, and which of them listed which kind
PrimaryValue == call_tool(The(hist.primaryOut)).value
SecondaryValue == call_tool(The(hist.secondaryOut)).value
BothListCallsReturned == ~IsNone(hist.secondaryOut) /\ ~hist.secondaryFailed
ApplicationsValue ==
    IF loc.tool_name = "list_applications" THEN PrimaryValue ELSE SecondaryValue
ProjectsValue ==
    IF loc.tool_name = "list_projects" THEN PrimaryValue ELSE SecondaryValue

\* C16: when the query asks for both kinds and both list calls return, the result
\* given to the formatter is an object with exactly the keys applications and
\* projects, each the list of the call of that kind, whichever call came first.
C16_MergedWhenBothSucceed ==
    BothListCallsReturned =>
        /\ loc.result.k = "dict"
        /\ {loc.result.d[i].key : i \in 1..Len(loc.result.d)} = {"applications", "projects"}
        /\ ApplicationsValue.k = "dict" =>
            Get(loc.result, "applications", PyNull) = ListOf(ApplicationsValue, "applications")
        /\ ProjectsValue.k = "dict" =>
            Get(loc.result, "projects", PyNull) = ListOf(ProjectsValue, "projects")

\* C17: when the secondary list call fails, the request ends with success=true
\* and no error, formatted from the primary result alone and persisted.
C17_SecondaryFailureNonFatal ==
    (Finished /\ hist.secondaryFailed) =>
        /\ ~IsNone(resp)
        /\ Envelope.success
        /\ IsNone(Envelope.error)
        /\ loc.result = PrimaryValue
        /\ hist.appended = 1

\* C20: the arguments of every intent select_tool returns are a map, so no tool
\* is called with a null arguments value.
C20_ArgumentsAlwaysMap ==
    hist.toolCalls # << >> => loc.arguments.k = "dict"

\* the query names applications ("app" is part of every application term) and projects
BothKindsNamed ==
    Contains(Lower(req.query), "app") /\ Contains(Lower(req.query), "project")
ListPairs == {<<"list_applications", "list_projects">>, <<"list_projects", "list_applications">>}

\* C22: a request makes at most two tool calls; it makes a second one only when
\* the query names both kinds, the resolved tool is one of the two list tools, the
\* second call is the other list tool and the first call returned; a request that
\* reached the tool call otherwise makes exactly one.
C22_SecondaryOnlyWhenBoth ==
    /\ Len(hist.toolCalls) <= 2
    /\ Len(hist.toolCalls) = 2 =>
        /\ BothKindsNamed
        /\ hist.toolCalls \in ListPairs
        /\ hist.toolCalls[1] = loc.tool_name
        /\ The(hist.primaryOut).kind # "error"
    /\ (pc \in {"format", "persist", "done"} /\ hist.toolCalls # << >>
            /\ ~(BothKindsNamed /\ loc.tool_name \in {"list_applications", "list_projects"}
                     /\ The(hist.primaryOut).kind # "error")) =>
        hist.toolCalls = <<loc.tool_name>>

\* a request that made both list calls and ended with success=true
C22_Witness ==
    /\ Finished
    /\ hist.toolCalls = <<"list_projects", "list_applications">>
    /\ ~IsNone(resp) /\ Envelope.success

\* the conversations of the request's session, when it arrived and now
TurnsBefore ==
    LET c == get_session_context(hist.store0, loc.session_id, now)
    IN  IF IsNone(c) THEN << >> ELSE Conversations(The(c))
TurnsNow ==
    LET c == get_session_context(redis, loc.session_id, now)
    IN  IF IsNone(c) THEN << >> ELSE Conversations(The(c))

\* C27: a request that returns success=true has appended exactly one turn, with
\* its query, the returned response text and metadata naming the tool and
\* success=true; nothing is written before the response is formatted, and a
\* request that returns success=false has written nothing.
C27_SuccessIffOneTurn ==
    /\ (~IsNone(resp) /\ Envelope.success) =>
        /\ hist.appended = 1
        /\ Len(TurnsNow) = Len(TurnsBefore) + 1
        /\ SubSeq(TurnsNow, 1, Len(TurnsBefore)) = TurnsBefore
        /\ TurnQuery(StoredTurn) = req.query
        /\ TurnResponse(StoredTurn) = Envelope.response
        /\ Get(StoredTurn, "metadata", PyNull) =
               PyDict(<<Entry("tool_name", PyStr(The(Envelope.tool_name))),
                        Entry("success", PyBool(TRUE))>>)
    /\ (~IsNone(resp) /\ ~Envelope.success) =>
        /\ hist.appended = 0
        /\ redis = hist.store0
    /\ pc \in {"load", "tools", "select", "call", "secondary", "format", "persist"} =>
        redis = hist.store0

\* a request answered by the fallback formatter, with its turn stored
C27_Witness ==
    /\ ~IsNone(resp) /\ Envelope.success
    /\ hist.primaryFailed
    /\ hist.appended = 1
    /\ TurnResponse(StoredTurn) = The(hist.fallback)

\* C28: success=true comes with error null and the invoked tool's name;
\* success=false comes with an error, and with a tool name only when the tool
\* call is what failed.
C28_EnvelopeConsistent ==
    ~IsNone(resp) =>
        /\ Envelope.success =>
            /\ IsNone(Envelope.error)
            /\ hist.toolCalls # << >>
            /\ Envelope.tool_name = Some(hist.toolCalls[1])
        /\ ~Envelope.success =>
            /\ ~IsNone(Envelope.error)
            /\ ~IsNone(Envelope.tool_name) => hist.failed = "call"

\* the envelope of a failed tool call of a query that names both kinds
C28_Witness ==
    /\ ~IsNone(resp)
    /\ ~Envelope.success
    /\ ~IsNone(Envelope.tool_name)
    /\ loc.needs_both

\* the result given to the formatters is the merged object
Merged ==
    /\ BothListCallsReturned
    /\ loc.result.k = "dict"
    /\ HasKey(loc.result, "applications") /\ HasKey(loc.result, "projects")

\* C30: the fallback formatter's text for a merged result has an applications
\* section and a projects section, whichever list tool was resolved.
C30_FallbackReportsBothKinds ==
    (Merged /\ ~IsNone(hist.fallback)) =>
        /\ Contains(Lower(The(hist.fallback)), "application")
        /\ Contains(Lower(The(hist.fallback)), "project")

====
